---------------------------- MODULE Spec2Model ----------------------------
(***************************************************************************)
(* Model of src/app.py: the ImprovedBengaliCorrector inference class (the  *)
(* four-stage correct() pipeline and _apply_edits) and load_corrector.     *)
(* The two accuracy figures of the corrector are read by the page alone,   *)
(* never by correct(), and are left out.                                   *)
(*                                                                         *)
(* Strings are sequences of one-character strings over Chars; " " is the   *)
(* only whitespace character of the alphabet.  The ordered mapping         *)
(* correction_dict is a sequence of <<incorrect, correct>> pairs with      *)
(* distinct keys, in iteration (insertion) order.                          *)
(***************************************************************************)
EXTENDS Integers, Sequences, FiniteSets, TLC

(***************************************************************************)
(* Bounds of the model.                                                    *)
(***************************************************************************)
\* longest input string handed to correct()
MaxLen == 4
\* most table entries (exact + unigram + bigram + rules) in one model bundle
MaxEntries == 2

(***************************************************************************)
(* Constants of the program.                                               *)
(***************************************************************************)
\* list(self.correction_dict.items())[:3000]
ScanCap == 3000
\* abs(len(inc) - text_len) > 4
LenDelta == 4
\* d <= 5
SearchRadius == 5
\* best_distance <= 3
AcceptRadius == 3
\* len(text) * 0.3, kept exact as the fraction RatioNum / RatioDen
RatioNum == 3
RatioDen == 10
\* float("inf"): larger than every distance the scan can see
Infinity == 1000000

Chars == {"a", "b", " "}

\* Python's None, a value that is no string over Chars
None == <<"None">>

(***************************************************************************)
(* Python string primitives used by correct().                             *)
(***************************************************************************)
IsSpace(c) == c = " "

RECURSIVE lstrip(_)
lstrip(s) == IF s # <<>> /\ IsSpace(Head(s)) THEN lstrip(Tail(s)) ELSE s

RECURSIVE rstrip(_)
rstrip(s) ==
    IF s # <<>> /\ IsSpace(s[Len(s)]) THEN rstrip(SubSeq(s, 1, Len(s) - 1)) ELSE s

\* faulty variant: the argument used as it is passed
strip_left_out(s) == s

\* str.strip(): leading and trailing whitespace removed
strip(s) == rstrip(lstrip(s))

RECURSIVE SplitFrom(_, _, _)
SplitFrom(s, cur, acc) ==
    IF s = <<>> THEN (IF cur = <<>> THEN acc ELSE Append(acc, cur))
    ELSE IF IsSpace(Head(s))
         THEN SplitFrom(Tail(s), <<>>, IF cur = <<>> THEN acc ELSE Append(acc, cur))
         ELSE SplitFrom(Tail(s), Append(cur, Head(s)), acc)

\* str.split(): maximal runs of non-whitespace, no empty token
split(s) == SplitFrom(s, <<>>, <<>>)

RECURSIVE join(_)
\* " ".join(ws)
join(ws) ==
    IF ws = <<>> THEN <<>>
    ELSE IF Len(ws) = 1 THEN ws[1]
    ELSE ws[1] \o <<" ">> \o join(Tail(ws))

Min2(x, y) == IF x <= y THEN x ELSE y

RECURSIVE LevRow(_, _, _, _)
\* one row of the Wagner-Fischer table: the distances from a prefix of a
\* ending in c to every prefix of b, from the previous row
LevRow(prev, c, b, row) ==
    IF Len(row) = Len(b) + 1 THEN row
    ELSE LET j == Len(row)
             sub == prev[j] + (IF b[j] = c THEN 0 ELSE 1)
         IN LevRow(prev, c, b,
                   Append(row, Min2(Min2(prev[j + 1] + 1, row[j] + 1), sub)))

RECURSIVE LevFrom(_, _, _)
LevFrom(a, b, prev) ==
    IF a = <<>> THEN prev[Len(b) + 1]
    ELSE LevFrom(Tail(a), b, LevRow(prev, Head(a), b, <<prev[1] + 1>>))

\* Levenshtein.distance: insertions, deletions, substitutions, unit cost
fast_distance(a, b) == LevFrom(a, b, [j \in 1..(Len(b) + 1) |-> j - 1])

StartsWith(s, i, old) ==
    i + Len(old) - 1 <= Len(s) /\ SubSeq(s, i, i + Len(old) - 1) = old

\* old in s (the empty string is in every string)
Contains(s, old) == \E i \in 1..(Len(s) + 1) : StartsWith(s, i, old)

RECURSIVE ReplaceFrom(_, _, _, _)
ReplaceFrom(s, i, old, new) ==
    IF i > Len(s) THEN <<>>
    ELSE IF StartsWith(s, i, old)
         THEN new \o ReplaceFrom(s, i + Len(old), old, new)
         ELSE <<s[i]>> \o ReplaceFrom(s, i + 1, old, new)

RECURSIVE Interleave(_, _)
Interleave(s, new) ==
    IF s = <<>> THEN new ELSE new \o <<Head(s)>> \o Interleave(Tail(s), new)

\* str.replace(old, new): every non-overlapping occurrence, leftmost first;
\* an empty old inserts new before every character and at the end
replace(s, old, new) ==
    IF old = <<>> THEN Interleave(s, new) ELSE ReplaceFrom(s, 1, old, new)

(***************************************************************************)
(* The pools the model bundles and the inputs are drawn from.              *)
(***************************************************************************)
SeqsUpTo(S, n) == UNION {[1..k -> S] : k \in 0..n}

\* every string over Chars of at most MaxLen characters
Inputs == SeqsUpTo(Chars, MaxLen)

\* <<incorrect, correct>>: an empty key, a key ending in whitespace, and a
\* key of MaxLen letters corrected to a string or to the empty string
DictEntries == { << <<>>, <<"b">> >>,
                 << <<"b", " ">>, <<"a">> >>,
                 << <<"b", "b", "b", "b">>, <<"b">> >>,
                 << <<"b", "b", "b", "b">>, <<>> >> }

UniKeys == { <<"b">> }
BiKeys == { << <<"a", "a">>, <<"b">> >> }
TokenVals == { <<"a">>, <<"b">>, <<"b", "b", "b">> }

RulePool == { <<"sub", <<"a">>, <<"b">> >>, <<"sub", <<"b">>, <<"a">> >>,
              <<"ins", <<"a">>, <<"b">> >> }

DistinctKeys(d) == \A i, j \in 1..Len(d) : i # j => d[i][1] # d[j][1]

DictChoices == {d \in SeqsUpTo(DictEntries, MaxEntries) : DistinctKeys(d)}
UniChoices == UNION {[D -> TokenVals] : D \in SUBSET UniKeys}
BiChoices == UNION {[D -> TokenVals] : D \in SUBSET BiKeys}
RuleChoices == SeqsUpTo(RulePool, MaxEntries)

\* how many entries of correction_dict are stored before the modelled ones.
\* Their keys are longer than MaxLen + LenDelta characters, so no input
\* equals one and the length test of the scan skips every one of them; they
\* only take up places among the first ScanCap items.
FillerChoices == {0, ScanCap - 1}

FieldNames == {"correction_dict", "best_word_corrections", "edit_patterns",
               "smoothed_bigram_corrections"}

EmptyDict == [filler |-> 0, items |-> <<>>]
EmptyMap == [k \in {} |-> <<>>]

(***************************************************************************)
(* State.                                                                  *)
(***************************************************************************)
VARIABLES
    pc,                            \* "boot", "loaded", "ready", "shown", "crashed"
    data,                          \* load_corrector: what pickle.load gave
    correction_dict,               \* [filler, items]: the ordered exact map
    best_word_corrections,         \* unigram map
    smoothed_bigram_corrections,   \* map from <<previous token, token>>
    edit_patterns,                 \* sequence of <<typ, old, new>>
    text,                          \* correct(): the argument as passed
    aggressive,                    \* correct(): the flag
    result,                        \* correct(): the value returned
    stage,                         \* correct(): which return statement ran
    best_match,                    \* correct(): locals at the return
    best_distance,
    words,
    new_words,
    changes

tables == <<correction_dict, best_word_corrections,
            smoothed_bigram_corrections, edit_patterns>>
locals == <<text, aggressive, result, stage, best_match, best_distance,
            words, new_words, changes>>
vars == <<pc, data, tables, locals>>

NoLocals ==
    /\ text = None /\ aggressive = FALSE /\ result = None /\ stage = "none"
    /\ best_match = None /\ best_distance = Infinity
    /\ words = <<>> /\ new_words = <<>> /\ changes = 0

\* ImprovedBengaliCorrector.__init__
EmptyTables ==
    /\ correction_dict = EmptyDict
    /\ best_word_corrections = EmptyMap
    /\ smoothed_bigram_corrections = EmptyMap
    /\ edit_patterns = <<>>

Init ==
    /\ pc = "boot"
    /\ data = [kind |-> "none"]
    /\ EmptyTables
    /\ NoLocals

(***************************************************************************)
(* ImprovedBengaliCorrector.correct, stage by stage.                       *)
(***************************************************************************)
\* the modelled entries among list(self.correction_dict.items())[:3000]
ScanPrefix(d) ==
    LET room == ScanCap - d.filler
    IN IF room <= 0 THEN <<>> ELSE SubSeq(d.items, 1, Min2(room, Len(d.items)))

\* faulty variant: membership looked up in the sliced list of the scan
HasKeyScanned(d, k) ==
    \E i \in 1..Len(ScanPrefix(d)) : ScanPrefix(d)[i][1] = k

\* text in self.correction_dict
HasKey(d, k) == \E i \in 1..Len(d.items) : d.items[i][1] = k
\* self.correction_dict[text]
Lookup(d, k) == d.items[CHOOSE i \in 1..Len(d.items) : d.items[i][1] = k][2]

Abs(n) == IF n < 0 THEN -n ELSE n

\* one iteration of the scan loop: the pair <<best_match, best_distance>>
\* after the entry <<inc, cor>>
ScanStep(t, entry, best) ==
    IF Abs(Len(entry[1]) - Len(t)) > LenDelta THEN best
    ELSE LET d == fast_distance(t, entry[1])
         IN IF d <= SearchRadius /\ d < best[2] THEN <<entry[2], d>> ELSE best

RECURSIVE ScanFrom(_, _, _)
ScanFrom(t, entries, best) ==
    IF entries = <<>> THEN best
    ELSE ScanFrom(t, Tail(entries), ScanStep(t, Head(entries), best))

\* the whole scan loop, from best_match, best_distance = None, float("inf")
Scan(t) == ScanFrom(t, ScanPrefix(correction_dict), <<None, Infinity>>)

\* truth value of "best_match" in a condition: None and "" are false
Truthy(v) == v # None /\ v # <<>>

\* faulty variant: the search radius used where the acceptance radius belongs
SimilarAcceptsSearchRadius(best) == Truthy(best[1]) /\ best[2] <= SearchRadius

\* if best_match and best_distance <= 3
SimilarAccepts(best) == Truthy(best[1]) /\ best[2] <= AcceptRadius

\* faulty variant: the unigram map asked before the bigram map
WordAtUnigramFirst(ws, i) ==
    IF ws[i] \in DOMAIN best_word_corrections
    THEN best_word_corrections[ws[i]]
    ELSE IF i > 1 /\ <<ws[i - 1], ws[i]>> \in DOMAIN smoothed_bigram_corrections
         THEN smoothed_bigram_corrections[<<ws[i - 1], ws[i]>>]
         ELSE ws[i]

\* the body of the token loop for position i: the corrected token
WordAt(ws, i) ==
    IF i > 1 /\ <<ws[i - 1], ws[i]>> \in DOMAIN smoothed_bigram_corrections
    THEN smoothed_bigram_corrections[<<ws[i - 1], ws[i]>>]
    ELSE IF ws[i] \in DOMAIN best_word_corrections
         THEN best_word_corrections[ws[i]]
         ELSE ws[i]

NewWords(ws) == [i \in 1..Len(ws) |-> WordAt(ws, i)]
Changes(ws, nws) == Cardinality({i \in 1..Len(ws) : nws[i] # ws[i]})

\* faulty variant: the variant without the "changes > 0" test
WordAcceptsAnyCandidate(t, candidate, ch) ==
    fast_distance(t, candidate) * RatioDen <= Len(t) * RatioNum

\* faulty variant: the distance guard left out
WordAcceptsAnyDistance(t, candidate, ch) == ch > 0

\* if changes > 0 and fast_distance(text, candidate) <= len(text) * 0.3
WordAccepts(t, candidate, ch) ==
    ch > 0 /\ fast_distance(t, candidate) * RatioDen <= Len(t) * RatioNum

RECURSIVE ApplyFrom(_, _)
ApplyFrom(corrected, patterns) ==
    IF patterns = <<>> THEN corrected
    ELSE LET r == Head(patterns)
         IN ApplyFrom(IF r[1] = "sub" /\ Contains(corrected, r[2])
                      THEN replace(corrected, r[2], r[3])
                      ELSE corrected,
                      Tail(patterns))

RECURSIVE ApplyAnyKindFrom(_, _)
ApplyAnyKindFrom(corrected, patterns) ==
    IF patterns = <<>> THEN corrected
    ELSE LET r == Head(patterns)
         IN ApplyAnyKindFrom(IF Contains(corrected, r[2])
                             THEN replace(corrected, r[2], r[3])
                             ELSE corrected,
                             Tail(patterns))

\* faulty variant: rules of every kind applied
apply_edits_any_kind(t, patterns) == ApplyAnyKindFrom(t, patterns)

\* _apply_edits, over the rule list given
apply_edits(t, patterns) == ApplyFrom(t, patterns)

\* faulty variant: the rules run in both modes
AggressiveRunsAlways(aggr) == TRUE

\* if aggressive: the flag guards the stage
AggressiveRuns(aggr) == aggr

Frame(res, stg, best, ws, nws, ch) ==
    [result |-> res, stage |-> stg, best_match |-> best[1],
     best_distance |-> best[2], words |-> ws, new_words |-> nws, changes |-> ch]

\* lines 72-82: the candidate is returned if accepted; else the rules run
\* in aggressive mode and what they changed is returned; else the text
AfterWords(t, aggr, patterns, best, ws, nws, ch, candidate) ==
    IF WordAccepts(t, candidate, ch)
    THEN Frame(candidate, "word", best, ws, nws, ch)
    ELSE IF AggressiveRuns(aggr) /\ apply_edits(t, patterns) # t
         THEN Frame(apply_edits(t, patterns), "aggressive", best, ws, nws, ch)
         ELSE Frame(t, "unchanged", best, ws, nws, ch)

\* lines 55-70: the token loop over words = text.split()
WordStage(t, aggr, patterns, best, ws, nws) ==
    AfterWords(t, aggr, patterns, best, ws, nws, Changes(ws, nws), join(nws))

\* lines 51-55: the best match is returned if accepted
AfterScan(t, aggr, patterns, best, ws) ==
    IF SimilarAccepts(best)
    THEN Frame(best[1], "similar", best, <<>>, <<>>, 0)
    ELSE WordStage(t, aggr, patterns, best, ws, NewWords(ws))

\* lines 31-48: the stripped text is returned if empty, its value if a key
AfterStrip(t, aggr, patterns) ==
    IF t = <<>> THEN Frame(t, "empty", <<None, Infinity>>, <<>>, <<>>, 0)
    ELSE IF HasKey(correction_dict, t)
    THEN Frame(Lookup(correction_dict, t), "exact", <<None, Infinity>>,
               <<>>, <<>>, 0)
    ELSE AfterScan(t, aggr, patterns, Scan(t), split(t))

\* correct(raw, aggr) with the rule list given: the value returned, the
\* return statement that produced it and the locals assigned by then
correctWith(raw, aggr, patterns) == AfterStrip(strip(raw), aggr, patterns)

correct(raw, aggr) == correctWith(raw, aggr, edit_patterns)

(***************************************************************************)
(* load_corrector.                                                         *)
(***************************************************************************)
\* data.get(k, default)
Get(fields, k, default) == IF k \in DOMAIN fields THEN fields[k] ELSE default

EntryCount(d, u, b, p) ==
    Len(d) + Cardinality(DOMAIN u) + Cardinality(DOMAIN b) + Len(p)

\* the unpickled dictionary: the fields outside absent, with these values
Bundle(absent, d, f, u, b, p) ==
    [k \in FieldNames \ absent |->
        CASE k = "correction_dict" -> [filler |-> f, items |-> d]
          [] k = "best_word_corrections" -> u
          [] k = "smoothed_bigram_corrections" -> b
          [] k = "edit_patterns" -> p]

\* the model bundles: at most MaxEntries table entries over all four tables,
\* any set of fields left out
Bundles ==
    UNION { UNION { UNION { UNION { UNION {
        { Bundle(absent, d, f, u, b, p) :
            absent \in { A \in SUBSET FieldNames :
                /\ "correction_dict" \in A => d = <<>>
                /\ "best_word_corrections" \in A => u = EmptyMap
                /\ "smoothed_bigram_corrections" \in A => b = EmptyMap
                /\ "edit_patterns" \in A => p = <<>> } }
        : f \in {g \in FillerChoices : d = <<>> => g = 0} }
        : p \in {q \in RuleChoices : EntryCount(d, u, b, q) <= MaxEntries} }
        : b \in {c \in BiChoices : EntryCount(d, u, c, <<>>) <= MaxEntries} }
        : u \in {v \in UniChoices : EntryCount(d, v, EmptyMap, <<>>) <= MaxEntries} }
        : d \in DictChoices }

\* faulty variant: a bundle without one of the three required fields is refused
LoadFieldsRequired(fields) ==
    IF {"correction_dict", "best_word_corrections", "edit_patterns"}
           \subseteq DOMAIN fields
    THEN /\ correction_dict' = fields["correction_dict"]
         /\ best_word_corrections' = fields["best_word_corrections"]
         /\ edit_patterns' = fields["edit_patterns"]
         /\ smoothed_bigram_corrections' =
                IF "smoothed_bigram_corrections" \in DOMAIN fields
                THEN fields["smoothed_bigram_corrections"] ELSE EmptyMap
         /\ pc' = "loaded"
    ELSE pc' = "crashed" /\ UNCHANGED tables

\* lines 98-110: a fresh corrector filled from the bundle, each field by
\* data.get with an empty default
LoadFields(fields) ==
    /\ correction_dict' = Get(fields, "correction_dict", EmptyDict)
    /\ best_word_corrections' = Get(fields, "best_word_corrections", EmptyMap)
    /\ edit_patterns' = Get(fields, "edit_patterns", <<>>)
    /\ smoothed_bigram_corrections' =
           Get(fields, "smoothed_bigram_corrections", EmptyMap)
    /\ pc' = "loaded"

\* open() and pickle.load succeed
LoadBundle ==
    /\ pc = "boot"
    /\ \E fields \in Bundles :
          /\ data' = [kind |-> "bundle", fields |-> fields]
          /\ LoadFields(fields)
    /\ UNCHANGED locals

\* open() raises FileNotFoundError: the dummy corrector of line 96
LoadMissing ==
    /\ pc = "boot"
    /\ data' = [kind |-> "missing"]
    /\ pc' = "loaded"
    /\ UNCHANGED <<tables, locals>>

\* open() or pickle.load raises anything else: nothing catches it, the call
\* ends without a corrector
LoadRaises ==
    /\ pc = "boot"
    /\ data' = [kind |-> "unreadable"]
    /\ pc' = "crashed"
    /\ UNCHANGED <<tables, locals>>

LoadCorrector == LoadBundle \/ LoadMissing \/ LoadRaises

\* load_corrector returns the corrector; its local data is gone
FinishLoad ==
    /\ pc = "loaded"
    /\ pc' = "ready"
    /\ data' = [kind |-> "none"]
    /\ UNCHANGED <<tables, locals>>

(***************************************************************************)
(* A call of corrector.correct and its return.                             *)
(***************************************************************************)
Correct(raw, aggr) ==
    /\ pc = "ready"
    /\ \E r \in {correct(raw, aggr)} :
          /\ text' = raw
          /\ aggressive' = aggr
          /\ result' = r.result
          /\ stage' = r.stage
          /\ best_match' = r.best_match
          /\ best_distance' = r.best_distance
          /\ words' = r.words
          /\ new_words' = r.new_words
          /\ changes' = r.changes
    /\ pc' = "shown"
    /\ UNCHANGED <<data, tables>>

\* the caller has the result; the locals of the call are gone
Return ==
    /\ pc = "shown"
    /\ pc' = "ready"
    /\ text' = None /\ aggressive' = FALSE /\ result' = None /\ stage' = "none"
    /\ best_match' = None /\ best_distance' = Infinity
    /\ words' = <<>> /\ new_words' = <<>> /\ changes' = 0
    /\ UNCHANGED <<data, tables>>

\* some caller calls correct with some string and flag
Call ==
    /\ pc = "ready"
    /\ \E raw \in Inputs, aggr \in BOOLEAN : Correct(raw, aggr)

Next ==
    \/ LoadCorrector
    \/ FinishLoad
    \/ Call
    \/ Return

Spec == Init /\ [][Next]_vars

(***************************************************************************)
(* Vocabulary of the properties, stated on the state alone.                *)
(***************************************************************************)
Items == correction_dict.items
IsKey(k) == \E i \in 1..Len(Items) : Items[i][1] = k
ValueOf(k) == Items[CHOOSE i \in 1..Len(Items) : Items[i][1] = k][2]

Blank(s) == \A i \in 1..Len(s) : s[i] = " "
Trimmed(s) == s = <<>> \/ (s[1] # " " /\ s[Len(s)] # " ")

AllTablesEmpty ==
    /\ Items = <<>> /\ correction_dict.filler = 0
    /\ DOMAIN best_word_corrections = {}
    /\ DOMAIN smoothed_bigram_corrections = {}
    /\ edit_patterns = <<>>

\* a call of correct has returned and its result is at hand
Shown == pc = "shown"
\* the call got past the exact-match and nearest-neighbour stages
PastSimilar == stage \in {"word", "aggressive", "unchanged"}
\* no stage before the aggressive one accepted
NoneAccepted == stage \in {"aggressive", "unchanged"}

(***************************************************************************)
(* C1.                                                                     *)
(***************************************************************************)
\* C1 as stated: for every key x of the exact map, correct(x, aggressive)
\* returns correction_dict[x], in both modes and whatever the other tables.
C1_EveryKeyReturnsItsValue ==
    (Shown /\ IsKey(text)) => result = ValueOf(text)

\* C1 as amended: for every key x of the exact map that is non-empty and has
\* no leading or trailing whitespace, correct(x, aggressive) returns
\* correction_dict[x] from the exact-match stage, in both modes, whatever the
\* unigram map, bigram map and rule list hold and wherever the key is stored.
C1_TrimmedKeyReturnsItsValue ==
    (Shown /\ IsKey(text) /\ text # <<>> /\ Trimmed(text))
        => (result = ValueOf(text) /\ stage = "exact")

\* a key is asked for in aggressive mode, with a rule that would rewrite
\* it, and its value comes back
C1_Witness ==
    /\ Shown /\ aggressive
    /\ IsKey(text) /\ text # <<>> /\ Trimmed(text)
    /\ result = ValueOf(text)
    /\ apply_edits(text, edit_patterns) # text
    /\ apply_edits(text, edit_patterns) # result

(***************************************************************************)
(* C2.                                                                     *)
(***************************************************************************)
\* C2 as stated: with all tables empty correct(x, aggressive) returns x
\* itself, for every input x and in both modes.
C2_EmptyTablesIdentity ==
    (Shown /\ AllTablesEmpty) => result = text

\* C2 as amended: with all tables empty correct(x, aggressive) returns x
\* with its leading and trailing whitespace removed, for every input x and
\* in both modes.
C2_EmptyTablesReturnTrimmed ==
    (Shown /\ AllTablesEmpty) => result = strip(text)

\* an input with whitespace around and inside it, in aggressive mode
C2_Witness ==
    /\ Shown /\ AllTablesEmpty /\ aggressive
    /\ ~Trimmed(text) /\ Len(words) = 2
    /\ result # text /\ result = strip(text)

(***************************************************************************)
(* C3.                                                                     *)
(***************************************************************************)
\* C3 as stated: if the bigram map has (prev, w) -> B and the unigram map
\* has w -> A, correct("prev w", False) returns "prev w" with w replaced by
\* B (and prev by its own unigram correction, if it has one).
C3_BigramResultReturned ==
    (/\ Shown /\ ~aggressive
     /\ Trimmed(text) /\ Len(split(text)) = 2 /\ text = join(split(text))
     /\ <<split(text)[1], split(text)[2]>> \in DOMAIN smoothed_bigram_corrections
     /\ split(text)[2] \in DOMAIN best_word_corrections)
        => /\ Len(split(result)) = 2
           /\ split(result)[2] =
                  smoothed_bigram_corrections[<<split(text)[1], split(text)[2]>>]

\* C3 as amended: in the token-substitution stage a token whose pair with
\* the original previous token is in the bigram map is replaced by the
\* bigram value, whatever the unigram map holds for it; correct returns the
\* sentence so built only when the stage is reached (no exact or
\* nearest-neighbour match was accepted) and its candidate is accepted (a
\* token changed and the distance is within 30% of the length).
C3_BigramOverridesUnigram ==
    (Shown /\ PastSimilar) =>
        /\ words = split(strip(text))
        /\ Len(new_words) = Len(words)
        /\ \A i \in 2..Len(words) :
              <<words[i - 1], words[i]>> \in DOMAIN smoothed_bigram_corrections
                  => new_words[i] =
                         smoothed_bigram_corrections[<<words[i - 1], words[i]>>]
        /\ stage = "word" => result = join(new_words)

\* "prev w" with both maps holding w, differently, and the bigram value
\* returned in the sentence
C3_Witness ==
    /\ Shown /\ ~aggressive /\ stage = "word"
    /\ Len(words) = 2 /\ text = join(words)
    /\ <<words[1], words[2]>> \in DOMAIN smoothed_bigram_corrections
    /\ words[2] \in DOMAIN best_word_corrections
    /\ best_word_corrections[words[2]] # words[2]
    /\ best_word_corrections[words[2]] #
           smoothed_bigram_corrections[<<words[1], words[2]>>]
    /\ result = join(<<words[1],
                       smoothed_bigram_corrections[<<words[1], words[2]>>]>>)

(***************************************************************************)
(* C4.                                                                     *)
(***************************************************************************)
\* the entries the scan computes a distance for: among the first ScanCap
\* stored, with a key length within LenDelta of the input's
Considered(t) ==
    {i \in 1..Len(Items) :
        /\ correction_dict.filler + i <= ScanCap
        /\ Len(Items[i][1]) - Len(t) <= LenDelta
        /\ Len(t) - Len(Items[i][1]) <= LenDelta}

Dist(t, i) == fast_distance(t, Items[i][1])

\* C4: whenever the nearest-neighbour stage returns, the value returned is
\* the correction of a scanned entry whose key is within AcceptRadius of the
\* trimmed input, at the minimum distance over the scanned entries; an
\* entry at distance AcceptRadius + 1 is never the one returned.
C4_SimilarWithinRadius ==
    (Shown /\ stage = "similar") =>
        /\ result = best_match
        /\ best_distance <= AcceptRadius
        /\ \E i \in Considered(strip(text)) :
              /\ Items[i][2] = result
              /\ Dist(strip(text), i) = best_distance
        /\ \A i \in Considered(strip(text)) :
              Dist(strip(text), i) >= best_distance

\* the stage returns while an entry at distance AcceptRadius + 1 is scanned
C4_Witness ==
    /\ Shown /\ stage = "similar"
    /\ \E i \in Considered(strip(text)) :
          Dist(strip(text), i) = AcceptRadius + 1
    /\ best_distance <= AcceptRadius

(***************************************************************************)
(* C5.                                                                     *)
(***************************************************************************)
\* the distance is at most 30% of the length
Within30(t, candidate) ==
    fast_distance(t, candidate) * RatioDen <= Len(t) * RatioNum

\* C5: the token-substitution stage returns its candidate (the tokens
\* rejoined with single spaces) only if a token changed and the distance
\* from the trimmed input is at most 30% of its length; when the stage is
\* reached and the candidate fails either test, the candidate is not what
\* the stage returns and a later stage decides.
C5_CandidateGuard ==
    (Shown /\ PastSimilar) =>
        /\ stage = "word" =>
              /\ result = join(new_words)
              /\ changes > 0
              /\ \E i \in 1..Len(words) : new_words[i] # words[i]
              /\ Within30(strip(text), result)
        /\ (changes = 0 \/ ~Within30(strip(text), join(new_words)))
              => NoneAccepted

\* replacements exist, the candidate is too far, and the call falls through
C5_Witness ==
    /\ Shown /\ stage = "unchanged"
    /\ changes > 0
    /\ ~Within30(strip(text), join(new_words))
    /\ Len(strip(text)) = MaxLen
    /\ result = strip(text)

(***************************************************************************)
(* C6.                                                                     *)
(***************************************************************************)
\* C6 as stated: the rule list (no rule of it with an empty source) holds a
\* rule ("sub", X, Y), the (trimmed) input contains X and no earlier stage accepts it; then the
\* conservative
\* call returns the input and the aggressive call the input with Y in place
\* of X.
C6_AnyListRuleApplied ==
    (/\ Shown /\ NoneAccepted /\ Trimmed(text)
     /\ \A k \in 1..Len(edit_patterns) : edit_patterns[k][2] # <<>>) =>
        \A k \in 1..Len(edit_patterns) :
            (edit_patterns[k][1] = "sub" /\ Contains(text, edit_patterns[k][2]))
                => result = IF aggressive
                            THEN replace(text, edit_patterns[k][2],
                                         edit_patterns[k][3])
                            ELSE text

\* the rules of kind "sub", in list order
RECURSIVE SubRules(_)
SubRules(patterns) ==
    IF patterns = <<>> THEN <<>>
    ELSE IF Head(patterns)[1] = "sub"
         THEN <<Head(patterns)>> \o SubRules(Tail(patterns))
         ELSE SubRules(Tail(patterns))

\* C6 as amended: the rule ("sub", X, Y) is the only rule of kind "sub" in
\* the list, the trimmed input contains X and no earlier stage accepts it;
\* then the conservative call returns the trimmed input and the aggressive
\* call the trimmed input with every occurrence of X replaced by Y.
C6_SingleSubRuleApplied ==
    (/\ Shown /\ NoneAccepted
     /\ Len(SubRules(edit_patterns)) = 1
     /\ Contains(strip(text), SubRules(edit_patterns)[1][2]))
        => result = IF aggressive
                    THEN replace(strip(text), SubRules(edit_patterns)[1][2],
                                 SubRules(edit_patterns)[1][3])
                    ELSE strip(text)

\* one "sub" rule beside a rule of another kind, fired in aggressive mode
C6_Witness ==
    /\ Shown /\ aggressive /\ stage = "aggressive"
    /\ Len(edit_patterns) = 2 /\ Len(SubRules(edit_patterns)) = 1
    /\ SubRules(edit_patterns)[1][2] # <<>>
    /\ Contains(strip(text), SubRules(edit_patterns)[1][2])
    /\ result # strip(text)

(***************************************************************************)
(* C7.                                                                     *)
(***************************************************************************)
\* C7: for an input that is empty or only whitespace correct returns the
\* empty string from its first return statement, in both modes and whatever
\* the tables hold; an exact-map entry whose key is the empty string is not
\* applied.
C7_BlankGivesEmpty ==
    (Shown /\ Blank(text)) => (result = <<>> /\ stage = "empty")

\* a whitespace-only input, with the empty string a key of the exact map
\* and a rule in the list, in aggressive mode
C7_Witness ==
    /\ Shown /\ aggressive
    /\ text # <<>> /\ Blank(text)
    /\ IsKey(<<>>) /\ ValueOf(<<>>) # <<>>
    /\ \E k \in 1..Len(edit_patterns) : edit_patterns[k][1] = "sub"
    /\ result = <<>>

(***************************************************************************)
(* C8.                                                                     *)
(***************************************************************************)
RequiredFields == {"correction_dict", "best_word_corrections", "edit_patterns"}

\* a readable bundle has just gone through load_corrector
BundleRead == data.kind = "bundle"

MinDist(t) ==
    CHOOSE d \in {Dist(t, i) : i \in Considered(t)} :
        \A i \in Considered(t) : d <= Dist(t, i)

\* the first entry in stored order at the minimum distance
FirstMin(t) ==
    CHOOSE i \in Considered(t) :
        /\ Dist(t, i) = MinDist(t)
        /\ \A j \in Considered(t) : Dist(t, j) = MinDist(t) => i <= j

\* C9: the trimmed input is not a key; among the first ScanCap entries with
\* a key length within LenDelta of the input's, whenever the minimum
\* distance is within AcceptRadius the nearest-neighbour stage accepts and
\* correct returns the correction of the first entry at that minimum.
C9_FirstMinimumReturned ==
    (/\ Shown /\ strip(text) # <<>> /\ ~IsKey(strip(text))
     /\ Considered(strip(text)) # {}
     /\ MinDist(strip(text)) <= AcceptRadius)
        => /\ stage = "similar"
           /\ result = Items[FirstMin(strip(text))][2]

(***************************************************************************)
(* C10.                                                                    *)
(***************************************************************************)
\* C10: if correct(x, False) differs from the trimmed x then
\* correct(x, True) returns the same value; and correct(x, False) is the
\* same whatever rule list the corrector holds: it is what the corrector
\* returns with the same three maps and an empty rule list.
C10_AggressiveOnlyAfterRest ==
    Shown =>
        IF aggressive
        THEN \A r \in {correct(text, FALSE).result} :
                 r # strip(text) => result = r
        ELSE correctWith(text, FALSE, <<>>).result = result

\* an aggressive call whose rules would rewrite the input, decided by an
\* earlier stage
C10_Witness ==
    /\ Shown /\ aggressive
    /\ stage \in {"similar", "word"}
    /\ result # strip(text)
    /\ apply_edits(strip(text), edit_patterns) # strip(text)
    /\ apply_edits(strip(text), edit_patterns) # result

====
